---- MODULE Spec2Model ----
(***************************************************************************)
(* State-machine model of lodestone_core's orchestration core,             *)
(* src/src/lib.rs: run() with its startup sequence, the event buffer task, *)
(* the monitor report task, the select! race and the cleanup loop.         *)
(*                                                                         *)
(* Library semantics used by run() are modelled as the libraries define    *)
(* them: tokio::sync::broadcast (bounded ring, Lagged/Closed), tokio's     *)
(* Mutex (exclusive, released when its guard is dropped), tokio's          *)
(* interval (first tick completes immediately), select! (the losing        *)
(* futures are dropped, and with them every guard they hold) and           *)
(* ringbuffer::AllocRingBuffer (push overwrites the oldest when full).     *)
(***************************************************************************)
EXTENDS Integers, Sequences, FiniteSets, TLC

\* ------------------------------------------------------------------------
\* Universes, program constants and bounds
\* ------------------------------------------------------------------------

\* Instance identifiers (uuids) that may be persisted under instances/.
Ids == {"i1", "i2"}

\* The absent owning identifier of a system-wide event.
NoId == "none"

\* broadcast::channel(256)
ChannelCap == 256

\* AllocRingBuffer::with_capacity(512) of the global event buffer
EventBufferCap == 512

\* AllocRingBuffer::with_capacity(512) of each console buffer
ConsoleBufferCap == 512

\* AllocRingBuffer::with_capacity(64) of each monitor buffer
MonitorBufferCap == 64

\* Duration::from_secs(1), in the model's time unit of 500 ms
TickPeriod == 2

\* Publishes and requests, together, of the environment in the full-lifecycle
\* specification.
MaxStimuli == 2

\* Time units (500 ms) the clock may advance in the full-lifecycle
\* specification.
MaxTime == 1

\* Events published in the lag workload: more than ChannelCap.
LagEvents == 259

\* Events published in the buffer workloads: more than the buffer capacity.
BufEvents == 514

\* Time units of the monitor workload: more than MonitorBufferCap ticks.
BufTime == 130

VARIABLES
    main_pc,            \* position of run()
    disk,               \* subdirectories of instances/: id -> [marker, config, auto_start, port]
    registry,           \* AppState.instances: the ids in the map
    registry_lock,      \* holder of the registry Mutex
    handle_lock,        \* id -> holder of that instance's Mutex
    running,            \* id -> whether the instance's process runs
    as_todo,            \* auto start loop: ids still to visit
    as_cur,             \* auto start loop: instance of the current iteration
    auto_started,       \* ids start() was invoked on by the auto start loop, in order
    chan,               \* broadcast channel: [buf, tail, closed]
    rx_next,            \* event_receiver's cursor
    evt_pc,             \* position of event_buffer_task
    evt_cur,            \* event held by event_buffer_task between recv and push
    events_buffer,      \* AppState.events_buffer
    console_out_buffer, \* AppState.console_out_buffer: id -> ring
    received,           \* events recv() has returned, in order
    lags,               \* Lagged signals recv() has returned: [missed, resume, tail]
    mon_pc,             \* position of monitor_report_task
    mon_cur,            \* instance the current pass is at
    mon_todo,           \* instances the current pass has still to visit
    monitor_buffer,     \* AppState.monitor_buffer: id -> ring
    mon_pass,           \* the pass in progress: [ids at its start, snapshots appended per id]
    pushed,             \* every element ever pushed, per buffer
    now,                \* clock, in units of 500 ms
    deadline,           \* the interval's next tick
    cl_todo,            \* cleanup loop: ids still to stop
    cl_cur,             \* cleanup loop: instance being stopped
    stop_calls,         \* id -> stop() invocations by the cleanup loop
    stop_failed,        \* ids whose cleanup stop() returned Err
    h_pc,               \* position of the request handler
    h_id,               \* instance the handler operates on
    users,              \* Stateful users: in-memory map (set of names)
    users_file,         \* the users file: [valid, content], content the entries in file order
    first_time_setup_key, \* AppState.first_time_setup_key
    h_result,           \* what the last users transform gave its caller
    finalized,          \* containers whose final persistence function ran
    port_allocator,     \* AppState.port_allocator: the ports in use
    producers,          \* event templates the environment may publish
    pubLeft,            \* events the environment may still publish
    reqLeft,            \* requests the environment may still send
    horizon             \* time the clock may reach

mainVars == <<main_pc, disk, registry, as_todo, as_cur, auto_started,
              cl_todo, cl_cur, stop_calls, stop_failed, finalized, port_allocator>>
lockVars == <<registry_lock, handle_lock>>
chanVars == <<chan, pubLeft>>
evtVars == <<rx_next, evt_pc, evt_cur, events_buffer, console_out_buffer, received,
            lags>>
monVars == <<mon_pc, mon_cur, mon_todo, monitor_buffer, mon_pass, deadline>>
hVars == <<h_pc, h_id, h_result>>
userVars == <<users, users_file, first_time_setup_key>>
envVars == <<producers, horizon, reqLeft>>

vars == <<mainVars, lockVars, running, chanVars, evtVars, monVars, pushed, now,
          hVars, userVars, envVars>>

\* ------------------------------------------------------------------------
\* Pure operators
\* ------------------------------------------------------------------------

\* The last n elements of s, in order.
LastN(s, n) == IF Len(s) <= n THEN s ELSE SubSeq(s, Len(s) - n + 1, Len(s))

\* Push as a ring that refuses the new element when full would do it.
Push_DropNewest(buf, cap, x) == IF Len(buf) < cap THEN Append(buf, x) ELSE buf

\* AllocRingBuffer::push on a ring of capacity cap: when full, the oldest
\* element is overwritten.
Push(buf, cap, x) == IF Len(buf) < cap THEN Append(buf, x) ELSE Append(Tail(buf), x)

\* HashMap entry(k).or_insert_with(|| AllocRingBuffer::with_capacity(cap)).push(x)
EntryPush(map, k, cap, x) ==
    IF k \in DOMAIN map
    THEN [map EXCEPT ![k] = Push(@, cap, x)]
    ELSE (k :> Push(<<>>, cap, x)) @@ map

\* The ring stored under k, the empty sequence when the map has no entry.
Entry(map, k) == IF k \in DOMAIN map THEN map[k] ELSE <<>>

\* Event kinds: console output, and every other kind.
Kinds == {"console", "other"}

\* What a producer can publish: console output always carries its instance;
\* other events are system-wide or carry the instance "i1".
Templates ==
    [kind : {"console"}, uuid : Ids] \cup [kind : {"other"}, uuid : {"i1", NoId}]

\* The value of evt_cur while the task holds no event.
NoEvent == [kind |-> "other", uuid |-> NoId, seq |-> -1]

\* Event::is_event_console_message
IsEventConsoleMessage(e) == e.kind = "console"

\* Event::get_instance_uuid
GetInstanceUuid(e) == e.uuid

\* broadcast Sender::send: never waits; beyond the capacity the oldest
\* retained value is overwritten.
Send(c, e) == [c EXCEPT !.buf = Push(c.buf, ChannelCap, e), !.tail = c.tail + 1]

\* Position of the oldest value the channel still retains.
Oldest(c) == c.tail - Len(c.buf)

\* The Sender tx is owned by run() until it returns; the channel is closed
\* once no Sender is left.
SendersAlive == main_pc \notin {"exited", "aborted"} /\ ~chan.closed

\* Recv as a receiver that reports Lagged without moving its cursor would
\* do it.
Recv_KeepCursor(c, next, alive) ==
    IF next < Oldest(c)
    THEN [tag |-> "lagged", missed |-> Oldest(c) - next, next |-> next]
    ELSE IF next < c.tail
    THEN [tag |-> "event", event |-> c.buf[next - Oldest(c) + 1], next |-> next + 1]
    ELSE IF alive
    THEN [tag |-> "pending", next |-> next]
    ELSE [tag |-> "closed", next |-> next]

\* broadcast Receiver::recv with cursor next: Lagged moves the cursor to the
\* oldest retained value; an empty channel is pending while a sender lives
\* and Closed once none does.
Recv(c, next, alive) ==
    IF next < Oldest(c)
    THEN [tag |-> "lagged", missed |-> Oldest(c) - next, next |-> Oldest(c)]
    ELSE IF next < c.tail
    THEN [tag |-> "event", event |-> c.buf[next - Oldest(c) + 1], next |-> next + 1]
    ELSE IF alive
    THEN [tag |-> "pending", next |-> next]
    ELSE [tag |-> "closed", next |-> next]

\* RouteEvent as a classification by the presence of an owning instance
\* would do it.
RouteEvent_ByOwner(e, eb, cb) ==
    IF GetInstanceUuid(e) # NoId
    THEN [events |-> eb,
          console |-> EntryPush(cb, GetInstanceUuid(e), ConsoleBufferCap, e)]
    ELSE [events |-> Push(eb, EventBufferCap, e), console |-> cb]

\* The classification of event_buffer_task: a console message goes to the
\* console buffer of its instance, anything else to the global buffer.
RouteEvent(e, eb, cb) ==
    IF IsEventConsoleMessage(e)
    THEN [events |-> eb,
          console |-> EntryPush(cb, GetInstanceUuid(e), ConsoleBufferCap, e)]
    ELSE [events |-> Push(eb, EventBufferCap, e), console |-> cb]

\* User names of the user store; "admin" is the one with is_owner set.
UserNames == {"admin", "guest"}

IsOwner(u) == u = "admin"

\* serde_json::to_writer of the user map: one entry per user, in the
\* HashMap's iteration order, which is any order.
ToWriter(value) ==
    {q \in UNION {[1..n -> value] : n \in {Cardinality(value)}} :
        {q[k] : k \in 1..Len(q)} = value}

\* serde_json::from_reader into a HashMap: the entries, whatever their order.
\* An empty file is not parsed, it gives HashMap::new().
FromReader(content) == {content[k] : k \in 1..Len(content)}

\* The containers built with Stateful::new.
Containers == {"users", "events_buffer", "console_out_buffer"}

\* The value of mon_pass while no pass is in progress.
NoPass == [ids |-> {}, count |-> [i \in Ids |-> 0]]

\* Positions of run() before the select!.
StartupPcs == {"prepare", "restore_users", "restore_instances", "auto_start"}

\* Positions of run() after the select!.
CleanupPcs == {"cleanup", "cleanup_wait", "stopping"}

\* ------------------------------------------------------------------------
\* Initial states
\* ------------------------------------------------------------------------

\* Ports a persisted configuration may name.
Ports == {25565, 25566}

\* What the .lodestone_config of a directory can hold: a configuration of a
\* Minecraft instance, one whose game_type is something else, or text that
\* is not such a configuration.
Configs == {"ok", "unsupported", "malformed"}

\* The port the configuration of instance i names when the ports differ.
OwnPort(i) == IF i = "i1" THEN 25565 ELSE 25566

\* Persisted instance directories: none, "i1", or both, each with the marker
\* file .lodestone_config, a well-formed configuration, its flag and a port
\* of its own.
DiskStates ==
    UNION {{[i \in S |-> [marker |-> TRUE, config |-> "ok", auto_start |-> f[i],
                          port |-> OwnPort(i)]] : f \in [S -> BOOLEAN]}
              : S \in {{}, {"i1"}, Ids}}

\* The one persisted instance "i1" with auto start flag a.
OneInstance(a) ==
    [i \in {"i1"} |->
        [marker |-> TRUE, config |-> "ok", auto_start |-> a, port |-> OwnPort(i)]]

\* Subdirectories of any kind: with or without the marker file, whatever it
\* holds.
DiskBoot ==
    UNION {[S -> [marker : BOOLEAN, config : Configs, auto_start : BOOLEAN,
                  port : Ports]]
              : S \in {{}, {"i1"}, Ids}}

\* A users file that holds the text q, and one that does not parse.
UsersFile(q) == [valid |-> TRUE, content |-> q]

BadUsersFile == [valid |-> FALSE, content |-> <<>>]

\* run() is entered with d under instances/, uf in the users file, and the
\* environment's budget: templates pr, pl publishes, rl requests, the clock
\* up to hz.
StartState(d, uf, pr, pl, rl, hz) ==
    /\ main_pc = "prepare"
    /\ disk = d
    /\ registry = {}
    /\ registry_lock = "free"
    /\ handle_lock = [i \in Ids |-> "free"]
    /\ running = [i \in Ids |-> FALSE]
    /\ as_todo = {}
    /\ as_cur = NoId
    /\ auto_started = <<>>
    /\ chan = [buf |-> <<>>, tail |-> 0, closed |-> FALSE]
    /\ rx_next = 0
    /\ evt_pc = "idle"
    /\ evt_cur = NoEvent
    /\ received = <<>>
    /\ events_buffer = <<>>
    /\ console_out_buffer = <<>>
    /\ lags = <<>>
    /\ mon_pc = "idle"
    /\ mon_cur = NoId
    /\ mon_todo = {}
    /\ monitor_buffer = <<>>
    /\ mon_pass = NoPass
    /\ pushed = [events |-> <<>>,
                 console |-> [i \in Ids |-> <<>>],
                 monitor |-> [i \in Ids |-> <<>>]]
    /\ now = 0
    /\ deadline = 0
    /\ cl_todo = {}
    /\ cl_cur = NoId
    /\ stop_calls = [i \in Ids |-> 0]
    /\ stop_failed = {}
    /\ h_pc = "idle"
    /\ h_id = NoId
    /\ users = {}
    /\ users_file = uf
    /\ first_time_setup_key = "none"
    /\ h_result = [io |-> "none", result |-> "none"]
    /\ finalized = {}
    /\ port_allocator = {}
    /\ producers = pr
    /\ pubLeft = pl
    /\ reqLeft = rl
    /\ horizon = hz

\* The environment's budget is split between publishes and requests.
Init ==
    \E d \in DiskStates, pl \in 0..MaxStimuli :
        StartState(d, UsersFile(<<>>), Templates, pl, MaxStimuli - pl, MaxTime)

\* ------------------------------------------------------------------------
\* Startup: run() up to the select!
\* ------------------------------------------------------------------------

\* create_dir_all(..).unwrap() five times, download_dependencies().unwrap(),
\* then broadcast::channel(256). A failure panics: run() is aborted.
Prepare ==
    /\ main_pc = "prepare"
    /\ \E ok \in BOOLEAN : main_pc' = IF ok THEN "restore_users" ELSE "aborted"
    /\ UNCHANGED <<disk, registry, as_todo, as_cur, auto_started,
                   cl_todo, cl_cur, stop_calls, stop_failed, finalized,
                   port_allocator>>
    /\ UNCHANGED <<lockVars, running, chanVars, evtVars, monVars, pushed, now,
                   hVars, userVars, envVars>>

\* RestoreUsers as a startup that takes any restored user for an owner would
\* do it: the key is generated only for an empty store.
RestoreUsers_KeyWhenEmpty ==
    /\ main_pc = "restore_users"
    /\ IF users_file.valid
       THEN /\ users' = FromReader(users_file.content)
            /\ first_time_setup_key' =
                   IF FromReader(users_file.content) # {} THEN "none" ELSE "key"
            /\ main_pc' = "restore_instances"
       ELSE /\ main_pc' = "aborted"
            /\ UNCHANGED <<users, first_time_setup_key>>
    /\ UNCHANGED <<disk, registry, as_todo, as_cur, auto_started,
                   cl_todo, cl_cur, stop_calls, stop_failed, finalized,
                   port_allocator>>
    /\ UNCHANGED <<lockVars, running, chanVars, evtVars, monVars, pushed, now,
                   hVars, users_file, envVars>>

\* restore_users into Stateful::new (serde_json::from_reader(..).unwrap()
\* panics on an unparseable file), then the first time setup key: Some(key)
\* unless a restored user is an owner.
RestoreUsers ==
    /\ main_pc = "restore_users"
    /\ IF users_file.valid
       THEN /\ users' = FromReader(users_file.content)
            /\ first_time_setup_key' =
                   IF \E u \in FromReader(users_file.content) : IsOwner(u)
                   THEN "none" ELSE "key"
            /\ main_pc' = "restore_instances"
       ELSE /\ main_pc' = "aborted"
            /\ UNCHANGED <<users, first_time_setup_key>>
    /\ UNCHANGED <<disk, registry, as_todo, as_cur, auto_started,
                   cl_todo, cl_cur, stop_calls, stop_failed, finalized,
                   port_allocator>>
    /\ UNCHANGED <<lockVars, running, chanVars, evtVars, monVars, pushed, now,
                   hVars, users_file, envVars>>

\* The directories restore_instances keeps: path.join(".lodestone_config")
\* .is_file().
Marked(d) == {i \in DOMAIN d : d[i].marker}

\* RestoreInstances as a restore that takes every subdirectory for an
\* instance would do it.
RestoreInstances_NoMarkerFilter ==
    /\ main_pc = "restore_instances"
    /\ IF \E i \in Marked(disk) : disk[i].config # "ok"
       THEN /\ main_pc' = "aborted"
            /\ UNCHANGED <<registry, as_todo>>
       ELSE /\ registry' = DOMAIN disk
            /\ as_todo' = DOMAIN disk
            /\ main_pc' = "auto_start"
    /\ UNCHANGED <<disk, as_cur, auto_started,
                   cl_todo, cl_cur, stop_calls, stop_failed, finalized,
                   port_allocator>>
    /\ UNCHANGED <<lockVars, running, chanVars, evtVars, monVars, pushed, now,
                   hVars, userVars, envVars>>

\* restore_instances: one handle per directory holding .lodestone_config;
\* a configuration that does not parse (the unwraps) or whose game_type is
\* not "minecraft" (unimplemented!) panics, and run() is aborted before the
\* map is returned.
RestoreInstances ==
    /\ main_pc = "restore_instances"
    /\ IF \E i \in Marked(disk) : disk[i].config # "ok"
       THEN /\ main_pc' = "aborted"
            /\ UNCHANGED <<registry, as_todo>>
       ELSE /\ registry' = Marked(disk)
            /\ as_todo' = Marked(disk)
            /\ main_pc' = "auto_start"
    /\ UNCHANGED <<disk, as_cur, auto_started,
                   cl_todo, cl_cur, stop_calls, stop_failed, finalized,
                   port_allocator>>
    /\ UNCHANGED <<lockVars, running, chanVars, evtVars, monVars, pushed, now,
                   hVars, userVars, envVars>>

\* AutoStartIteration as a loop that unwraps the result of start() would do
\* it: an Err aborts run().
AutoStartIteration_AbortOnErr(i, ok) ==
    /\ as_cur = i
    /\ handle_lock' = [handle_lock EXCEPT ![i] = "free"]
    /\ as_cur' = NoId
    /\ IF disk[i].auto_start
       THEN /\ auto_started' = Append(auto_started, i)
            /\ running' = [running EXCEPT ![i] = ok]
            /\ main_pc' = IF ok THEN main_pc ELSE "aborted"
       ELSE UNCHANGED <<auto_started, running, main_pc>>
    /\ as_todo' = as_todo \ {i}

\* The rest of the iteration of the auto start loop on the locked instance
\* i, whose start() gives Ok (ok) or Err: start() is awaited only when
\* auto_start() holds, an Err is logged, the handle guard ends with the
\* iteration, and the loop goes on.
AutoStartIteration(i, ok) ==
    /\ as_cur = i
    /\ handle_lock' = [handle_lock EXCEPT ![i] = "free"]
    /\ as_cur' = NoId
    /\ IF disk[i].auto_start
       THEN /\ auto_started' = Append(auto_started, i)
            /\ running' = [running EXCEPT ![i] = ok]
       ELSE UNCHANGED <<auto_started, running>>
    /\ as_todo' = as_todo \ {i}
    /\ UNCHANGED main_pc

\* let mut instance = instance.lock().await; of the auto start loop, on its
\* next entry.
AutoStartLockHandle ==
    /\ main_pc = "auto_start"
    /\ as_cur = NoId
    /\ \E i \in as_todo :
          /\ handle_lock[i] = "free"
          /\ handle_lock' = [handle_lock EXCEPT ![i] = "main"]
          /\ as_cur' = i
    /\ UNCHANGED <<main_pc, disk, registry, as_todo, auto_started, cl_todo, cl_cur,
                   stop_calls, stop_failed, finalized, port_allocator>>
    /\ UNCHANGED <<registry_lock, running, chanVars, evtVars, monVars, pushed, now,
                   hVars, userVars, envVars>>

AutoStart ==
    /\ main_pc = "auto_start"
    /\ \E i \in as_todo, ok \in BOOLEAN : AutoStartIteration(i, ok)
    /\ UNCHANGED <<disk, registry, cl_todo, cl_cur, stop_calls, stop_failed,
                   finalized, port_allocator>>
    /\ UNCHANGED <<registry_lock, chanVars, evtVars, monVars, pushed, now,
                   hVars, userVars, envVars>>

\* allocated_ports: instance.port() of every restored instance, collected in
\* a HashSet.
AllocatedPorts(reg, d) == {d[i].port : i \in reg}

\* PortAllocator::new(allocated_ports): the given ports are in use.
PortAllocatorNew(ports) == ports

\* After the loop: the ports are collected, AppState is assembled, the
\* receiver is subscribed (it sees what is sent from now on), and run()
\* enters the select!, whose first poll starts both tasks and creates the
\* interval.
Assemble ==
    /\ main_pc = "auto_start"
    /\ as_todo = {}
    /\ rx_next' = chan.tail
    /\ evt_pc' = "recv"
    /\ mon_pc' = "pass"
    /\ deadline' = now
    /\ main_pc' = "select"
    /\ port_allocator' = PortAllocatorNew(AllocatedPorts(registry, disk))
    /\ UNCHANGED <<disk, registry, as_todo, as_cur, auto_started,
                   cl_todo, cl_cur, stop_calls, stop_failed, finalized>>
    /\ UNCHANGED <<lockVars, running, chanVars, evt_cur, events_buffer,
                   console_out_buffer, received, lags, mon_cur, mon_todo,
                   monitor_buffer, mon_pass, pushed, now, hVars, userVars, envVars>>

\* ------------------------------------------------------------------------
\* The Event Bus producers (instances, handlers)
\* ------------------------------------------------------------------------

\* Who can publish: restored instances once they exist, and system code once
\* the server runs.
CanPublish(t) ==
    /\ main_pc \in {"auto_start", "select"}
    /\ t \in producers
    /\ t.uuid \in registry \/ (t.uuid = NoId /\ main_pc = "select")

\* event_broadcaster.send(event)
Publish ==
    /\ pubLeft > 0
    /\ ~chan.closed
    /\ \E t \in Templates :
          /\ CanPublish(t)
          /\ chan' = Send(chan, [kind |-> t.kind, uuid |-> t.uuid, seq |-> chan.tail])
    /\ pubLeft' = pubLeft - 1
    /\ UNCHANGED <<mainVars, lockVars, running, evtVars, monVars, pushed, now,
                   hVars, userVars, envVars>>

\* ------------------------------------------------------------------------
\* event_buffer_task
\* ------------------------------------------------------------------------

\* EventRecv as a loop that breaks on any error of recv() would do it.
EventRecv_BreakOnLagged ==
    /\ evt_pc = "recv"
    /\ LET r == Recv(chan, rx_next, SendersAlive) IN
          /\ r.tag # "pending"
          /\ rx_next' = r.next
          /\ evt_pc' = CASE r.tag = "lagged" -> "done"
                         [] r.tag = "closed" -> "done"
                         [] OTHER -> "route"
          /\ evt_cur' = IF r.tag = "event" THEN r.event ELSE NoEvent
          /\ received' = IF r.tag = "event" THEN Append(received, r.event) ELSE received
          /\ lags' = IF r.tag = "lagged"
                     THEN Append(lags, [missed |-> r.missed, resume |-> r.next,
                                        tail |-> chan.tail])
                     ELSE lags
    /\ UNCHANGED <<events_buffer, console_out_buffer>>
    /\ UNCHANGED <<mainVars, lockVars, running, chanVars, monVars, pushed, now,
                   hVars, userVars, envVars>>

\* event_receiver.recv().await and the match on its error: Lagged is logged
\* and the loop continues, Closed breaks, an event is kept for the push.
EventRecv ==
    /\ evt_pc = "recv"
    /\ LET r == Recv(chan, rx_next, SendersAlive) IN
          /\ r.tag # "pending"
          /\ rx_next' = r.next
          /\ evt_pc' = CASE r.tag = "lagged" -> "recv"
                         [] r.tag = "closed" -> "done"
                         [] OTHER -> "route"
          /\ evt_cur' = IF r.tag = "event" THEN r.event ELSE NoEvent
          /\ received' = IF r.tag = "event" THEN Append(received, r.event) ELSE received
          /\ lags' = IF r.tag = "lagged"
                     THEN Append(lags, [missed |-> r.missed, resume |-> r.next,
                                        tail |-> chan.tail])
                     ELSE lags
    /\ UNCHANGED <<events_buffer, console_out_buffer>>
    /\ UNCHANGED <<mainVars, lockVars, running, chanVars, monVars, pushed, now,
                   hVars, userVars, envVars>>

\* The buffer's lock is taken and transform pushes the event; the
\* persistence closures of both buffers return Ok(()).
EventRoute ==
    /\ evt_pc = "route"
    /\ LET r == RouteEvent(evt_cur, events_buffer, console_out_buffer) IN
          /\ events_buffer' = r.events
          /\ console_out_buffer' = r.console
          /\ pushed' = [pushed EXCEPT
                 !.events = IF r.events # events_buffer
                            THEN Append(@, evt_cur) ELSE @,
                 !.console = [i \in Ids |->
                                IF Entry(r.console, i) # Entry(console_out_buffer, i)
                                THEN Append(@[i], evt_cur) ELSE @[i]]]
    /\ evt_pc' = "recv"
    /\ evt_cur' = NoEvent
    /\ UNCHANGED <<rx_next, received, lags>>
    /\ UNCHANGED <<mainVars, lockVars, running, chanVars, monVars, now,
                   hVars, userVars, envVars>>

\* ------------------------------------------------------------------------
\* monitor_report_task
\* ------------------------------------------------------------------------

\* The report of instance i taken at time t.
Report(i, t) == [uuid |-> i, time |-> t]

\* for (uuid, instance) in instances.lock().await.iter(): the guard is a
\* temporary of the iterator expression and lives until the loop ends.
MonitorBeginPass ==
    /\ mon_pc = "pass"
    /\ registry_lock = "free"
    /\ IF registry = {}
       THEN /\ mon_pc' = "tick"
            /\ UNCHANGED <<mon_cur, mon_todo, registry_lock>>
       ELSE \E i \in registry :
               /\ mon_cur' = i
               /\ mon_todo' = registry \ {i}
               /\ registry_lock' = "monitor"
               /\ mon_pc' = "lock_handle"
    /\ mon_pass' = IF registry = {} THEN NoPass
                   ELSE [ids |-> registry, count |-> [i \in Ids |-> 0]]
    /\ UNCHANGED <<monitor_buffer, deadline, handle_lock>>
    /\ UNCHANGED <<mainVars, running, chanVars, evtVars, pushed, now,
                   hVars, userVars, envVars>>

\* MonitorLockHandle as a pass that calls monitor() on the handle without
\* taking its lock would do it.
MonitorLockHandle_NoLock ==
    /\ mon_pc = "lock_handle"
    /\ mon_pc' = "monitoring"
    /\ UNCHANGED <<mon_cur, mon_todo, monitor_buffer, mon_pass, deadline, lockVars>>
    /\ UNCHANGED <<mainVars, running, chanVars, evtVars, pushed, now,
                   hVars, userVars, envVars>>

\* instance.lock().await
MonitorLockHandle ==
    /\ mon_pc = "lock_handle"
    /\ handle_lock[mon_cur] = "free"
    /\ handle_lock' = [handle_lock EXCEPT ![mon_cur] = "monitor"]
    /\ mon_pc' = "monitoring"
    /\ UNCHANGED <<mon_cur, mon_todo, monitor_buffer, mon_pass, deadline, registry_lock>>
    /\ UNCHANGED <<mainVars, running, chanVars, evtVars, pushed, now,
                   hVars, userVars, envVars>>

\* MonitorReport as a loop that ends its pass after the first report would
\* do it.
MonitorReport_BreakAfterFirst ==
    /\ mon_pc = "monitoring"
    /\ handle_lock' = [handle_lock EXCEPT ![mon_cur] = "free"]
    /\ monitor_buffer' =
           EntryPush(monitor_buffer, mon_cur, MonitorBufferCap, Report(mon_cur, now))
    /\ pushed' = [pushed EXCEPT !.monitor[mon_cur] = Append(@, Report(mon_cur, now))]
    /\ registry_lock' = "free"
    /\ mon_pc' = "tick"
    /\ mon_cur' = NoId
    /\ mon_todo' = {}
    /\ mon_pass' = NoPass
    /\ UNCHANGED deadline
    /\ UNCHANGED <<mainVars, running, chanVars, evtVars, now,
                   hVars, userVars, envVars>>

\* monitor() returns, the handle guard is dropped at the end of the let, the
\* report is pushed under the monitor buffer's lock, and the loop moves to
\* the next entry or, after the last, drops the registry guard.
MonitorReport ==
    /\ mon_pc = "monitoring"
    /\ handle_lock' = [handle_lock EXCEPT ![mon_cur] = "free"]
    /\ monitor_buffer' =
           EntryPush(monitor_buffer, mon_cur, MonitorBufferCap, Report(mon_cur, now))
    /\ pushed' = [pushed EXCEPT !.monitor[mon_cur] = Append(@, Report(mon_cur, now))]
    /\ IF mon_todo = {}
       THEN /\ registry_lock' = "free"
            /\ mon_pc' = "tick"
            /\ mon_cur' = NoId
            /\ mon_pass' = NoPass
            /\ UNCHANGED mon_todo
       ELSE \E i \in mon_todo :
               /\ mon_cur' = i
               /\ mon_todo' = mon_todo \ {i}
               /\ mon_pc' = "lock_handle"
               /\ mon_pass' = [mon_pass EXCEPT !.count[mon_cur] = @ + 1]
               /\ UNCHANGED registry_lock
    /\ UNCHANGED deadline
    /\ UNCHANGED <<mainVars, running, chanVars, evtVars, now,
                   hVars, userVars, envVars>>

\* interval.tick().await: completes once the clock has reached the
\* interval's deadline, which then moves one period on; the first deadline
\* is the interval's creation time.
MonitorTick ==
    /\ mon_pc = "tick"
    /\ now >= deadline
    /\ deadline' = deadline + TickPeriod
    /\ mon_pc' = "pass"
    /\ UNCHANGED <<mon_cur, mon_todo, monitor_buffer, mon_pass>>
    /\ UNCHANGED <<mainVars, lockVars, running, chanVars, evtVars, pushed, now,
                   hVars, userVars, envVars>>

\* Time passes while the monitor task sleeps in interval.tick(): its passes
\* take no time on the model's clock. Untimed behaviour is not restricted by
\* this: no step is ever forced.
AdvanceTime ==
    /\ main_pc = "select"
    /\ mon_pc = "tick"
    /\ now < deadline
    /\ now < horizon
    /\ now' = now + 1
    /\ UNCHANGED <<mainVars, lockVars, running, chanVars, evtVars, monVars, pushed,
                   hVars, userVars, envVars>>

\* ------------------------------------------------------------------------
\* The select! race and the cleanup
\* ------------------------------------------------------------------------

\* The branches of the select! that can complete: the server may exit and
\* ctrl_c may arrive at any time; event_buffer_task completes after its
\* break; monitor_report_task has no exit.
Finished ==
    {"server", "ctrl_c"} \cup (IF evt_pc = "done" THEN {"event_buffer_task"} ELSE {})

\* SelectDone as a race among spawned tasks would do it: the tasks that did
\* not finish keep running.
SelectDone_NoDrop ==
    /\ main_pc = "select"
    /\ Finished # {}
    /\ main_pc' = "cleanup"
    /\ UNCHANGED <<disk, registry, as_todo, as_cur, auto_started,
                   cl_todo, cl_cur, stop_calls, stop_failed, finalized,
                   port_allocator>>
    /\ UNCHANGED <<lockVars, running, chanVars, evtVars, monVars, pushed, now,
                   hVars, userVars, envVars>>

\* select! returns with the first completed branch; the other futures are
\* dropped: their locals (the receiver and the event in hand, the pass
\* position, the interval) cease to exist and the guards they hold are
\* released.
SelectDone ==
    /\ main_pc = "select"
    /\ Finished # {}
    /\ registry_lock' = IF registry_lock = "monitor" THEN "free" ELSE registry_lock
    /\ handle_lock' = [i \in Ids |->
                          IF handle_lock[i] = "monitor" THEN "free" ELSE handle_lock[i]]
    /\ evt_pc' = IF evt_pc = "done" THEN "done" ELSE "dropped"
    /\ evt_cur' = NoEvent
    /\ rx_next' = 0
    /\ mon_pc' = "dropped"
    /\ mon_cur' = NoId
    /\ mon_todo' = {}
    /\ mon_pass' = NoPass
    /\ deadline' = 0
    /\ main_pc' = "cleanup"
    /\ UNCHANGED <<disk, registry, as_todo, as_cur, auto_started,
                   cl_todo, cl_cur, stop_calls, stop_failed, finalized,
                   port_allocator>>
    /\ UNCHANGED <<running, chanVars, events_buffer, console_out_buffer, received,
                   lags, monitor_buffer, pushed, now, hVars, userVars, envVars>>

\* let instances = shared_state.instances.lock().await; the guard lives to
\* the end of run(). The loop then goes to its first entry.
CleanupLockRegistry ==
    /\ main_pc = "cleanup"
    /\ registry_lock = "free"
    /\ IF registry = {}
       THEN /\ main_pc' = "exited"
            /\ UNCHANGED <<registry_lock, cl_cur, cl_todo>>
       ELSE \E i \in registry :
               /\ cl_cur' = i
               /\ cl_todo' = registry \ {i}
               /\ registry_lock' = "main"
               /\ main_pc' = "cleanup_wait"
    /\ UNCHANGED <<disk, registry, as_todo, as_cur, auto_started,
                   stop_calls, stop_failed, finalized, port_allocator>>
    /\ UNCHANGED <<handle_lock, running, chanVars, evtVars, monVars, pushed, now,
                   hVars, userVars, envVars>>

\* let mut instance = instance.lock().await;
CleanupLockHandle ==
    /\ main_pc = "cleanup_wait"
    /\ handle_lock[cl_cur] = "free"
    /\ handle_lock' = [handle_lock EXCEPT ![cl_cur] = "main"]
    /\ main_pc' = "stopping"
    /\ UNCHANGED <<disk, registry, as_todo, as_cur, auto_started,
                   cl_todo, cl_cur, stop_calls, stop_failed, finalized,
                   port_allocator>>
    /\ UNCHANGED <<registry_lock, running, chanVars, evtVars, monVars, pushed, now,
                   hVars, userVars, envVars>>

\* CleanupIteration as a loop that propagates the Err of stop() would do it:
\* the first failure ends the loop.
CleanupIteration_AbortOnErr(ok, nxt) ==
    /\ stop_calls' = [stop_calls EXCEPT ![cl_cur] = @ + 1]
    /\ running' = IF ok THEN [running EXCEPT ![cl_cur] = FALSE] ELSE running
    /\ stop_failed' = IF ok THEN stop_failed ELSE stop_failed \cup {cl_cur}
    /\ handle_lock' = [handle_lock EXCEPT ![cl_cur] = "free"]
    /\ IF cl_todo = {} \/ ~ok
       THEN /\ main_pc' = "exited"
            /\ registry_lock' = "free"
            /\ cl_cur' = NoId
            /\ UNCHANGED cl_todo
       ELSE /\ nxt \in cl_todo
            /\ cl_cur' = nxt
            /\ cl_todo' = cl_todo \ {nxt}
            /\ main_pc' = "cleanup_wait"
            /\ UNCHANGED registry_lock

\* let _ = instance.stop().await; with stop() giving Ok (ok) or Err: the
\* result is dropped, the handle guard ends with the iteration, and the loop
\* goes to the next entry (nxt) or, after the last, run() returns.
CleanupIteration(ok, nxt) ==
    /\ stop_calls' = [stop_calls EXCEPT ![cl_cur] = @ + 1]
    /\ running' = IF ok THEN [running EXCEPT ![cl_cur] = FALSE] ELSE running
    /\ stop_failed' = IF ok THEN stop_failed ELSE stop_failed \cup {cl_cur}
    /\ handle_lock' = [handle_lock EXCEPT ![cl_cur] = "free"]
    /\ IF cl_todo = {}
       THEN /\ main_pc' = "exited"
            /\ registry_lock' = "free"
            /\ cl_cur' = NoId
            /\ UNCHANGED cl_todo
       ELSE /\ nxt \in cl_todo
            /\ cl_cur' = nxt
            /\ cl_todo' = cl_todo \ {nxt}
            /\ main_pc' = "cleanup_wait"
            /\ UNCHANGED registry_lock

CleanupStop ==
    /\ main_pc = "stopping"
    /\ \E ok \in BOOLEAN, nxt \in Ids : CleanupIteration(ok, nxt)
    /\ UNCHANGED <<disk, registry, as_todo, as_cur, auto_started,
                   finalized, port_allocator>>
    /\ UNCHANGED <<chanVars, evtVars, monVars, pushed, now, hVars, userVars, envVars>>

\* ------------------------------------------------------------------------
\* Request handlers (the handlers module): served while the server runs,
\* and, as spawned connection tasks, until run() returns.
\* ------------------------------------------------------------------------

Serving == main_pc \in {"select"} \cup CleanupPcs

\* A lifecycle request: the handle is looked up under the registry lock,
\* which is released before the handle is locked.
HandlerLookup ==
    /\ Serving
    /\ h_pc = "idle"
    /\ reqLeft > 0
    /\ registry_lock = "free"
    /\ \E i \in registry : h_id' = i
    /\ h_pc' = "lock_handle"
    /\ reqLeft' = reqLeft - 1
    /\ UNCHANGED <<h_result, producers, horizon>>
    /\ UNCHANGED <<mainVars, lockVars, running, chanVars, evtVars, monVars, pushed,
                   now, userVars>>

HandlerLockHandle ==
    /\ Serving
    /\ h_pc = "lock_handle"
    /\ handle_lock[h_id] = "free"
    /\ handle_lock' = [handle_lock EXCEPT ![h_id] = "handler"]
    /\ h_pc' = "op"
    /\ UNCHANGED <<h_id, h_result, registry_lock>>
    /\ UNCHANGED <<mainVars, running, chanVars, evtVars, monVars, pushed,
                   now, userVars, envVars>>

\* The operation (start, stop, restart, kill) returns; it leaves the
\* instance running or not.
HandlerOpDone ==
    /\ Serving
    /\ h_pc = "op"
    /\ \E r \in BOOLEAN : running' = [running EXCEPT ![h_id] = r]
    /\ handle_lock' = [handle_lock EXCEPT ![h_id] = "free"]
    /\ h_pc' = "idle"
    /\ h_id' = NoId
    /\ UNCHANGED <<h_result, registry_lock>>
    /\ UNCHANGED <<mainVars, chanVars, evtVars, monVars, pushed,
                   now, userVars, envVars>>

\* A request that deletes the instance: after its operation on the handle
\* the handler keeps the handle lock and asks for the registry lock.
HandlerOpThenRemove ==
    /\ Serving
    /\ h_pc = "op"
    /\ running' = [running EXCEPT ![h_id] = FALSE]
    /\ h_pc' = "remove_wait"
    /\ UNCHANGED <<h_id, h_result, lockVars>>
    /\ UNCHANGED <<mainVars, chanVars, evtVars, monVars, pushed,
                   now, userVars, envVars>>

\* remove(id) under the registry lock, held for this one map operation;
\* then the handle guard is dropped.
HandlerRemove ==
    /\ Serving
    /\ h_pc = "remove_wait"
    /\ registry_lock = "free"
    /\ registry' = registry \ {h_id}
    /\ handle_lock' = [handle_lock EXCEPT ![h_id] = "free"]
    /\ h_pc' = "idle"
    /\ h_id' = NoId
    /\ UNCHANGED <<main_pc, disk, as_todo, as_cur, auto_started,
                   cl_todo, cl_cur, stop_calls, stop_failed, finalized,
                   port_allocator>>
    /\ UNCHANGED <<h_result, registry_lock, running, chanVars, evtVars, monVars,
                   pushed, now, userVars, envVars>>

\* What the persistence layer does to a write of the users file.
IoOutcomes == {"ok", "create_failed", "write_failed"}

\* The checkpoint closure of stateful_users:
\* serde_json::to_writer(File::create(PATH_TO_USERS).unwrap(), users).unwrap();
\* Ok(()). Either failure panics; nothing is returned as Err.
UsersCheckpoint(io) == IF io = "ok" THEN "Ok" ELSE "panic"

\* UsersFileAfter as a closure that opens the file for appending would do
\* it: the new text follows the old, which parses only after an empty file.
UsersFileAfter_Append(file, value, io) ==
    CASE io = "ok" -> [valid |-> file.valid /\ file.content = <<>>,
                       content |-> file.content \o value]
      [] io = "create_failed" -> file
      [] OTHER -> [valid |-> FALSE, content |-> <<>>]

\* The users file after the closure wrote the text value: File::create
\* truncates the file before anything is written, to_writer writes value; a
\* failed write leaves a truncated text.
UsersFileAfter(file, value, io) ==
    CASE io = "ok" -> [valid |-> TRUE, content |-> value]
      [] io = "create_failed" -> file
      [] OTHER -> [valid |-> FALSE, content |-> <<>>]

\* Stateful::transform: the mutation is applied in place, then the
\* incremental persistence function runs on the new value; the call fails
\* when either does, and a panic of the function unwinds through it.
StatefulTransform(mutated, persisted) == IF mutated THEN persisted ELSE "Err"

\* A request that adds user u: users.lock().await.transform(..), the
\* persistence layer behaving as io. A mutation that fails is all-or-nothing
\* and leaves the map as it was; the checkpoint is then not run.
HandlerUsersTransform ==
    /\ Serving
    /\ h_pc = "idle"
    /\ reqLeft > 0
    /\ \/ \E u \in UserNames, io \in IoOutcomes :
          \E text \in ToWriter(users \cup {u}) :
             /\ users' = users \cup {u}
             /\ users_file' = UsersFileAfter(users_file, text, io)
             /\ h_result' = [io |-> io,
                             result |-> StatefulTransform(TRUE, UsersCheckpoint(io))]
       \/ /\ h_result' = [io |-> "not_run",
                           result |-> StatefulTransform(FALSE, "Ok")]
          /\ UNCHANGED <<users, users_file>>
    /\ reqLeft' = reqLeft - 1
    /\ UNCHANGED <<h_pc, h_id, first_time_setup_key, producers, horizon>>
    /\ UNCHANGED <<mainVars, lockVars, running, chanVars, evtVars, monVars, pushed,
                   now>>

\* ------------------------------------------------------------------------
\* Specifications
\* ------------------------------------------------------------------------

Startup ==
    \/ Prepare
    \/ RestoreUsers
    \/ RestoreInstances
    \/ AutoStartLockHandle
    \/ AutoStart
    \/ Assemble

EventTask == EventRecv \/ EventRoute

MonitorTask == MonitorBeginPass \/ MonitorLockHandle \/ MonitorReport \/ MonitorTick

Cleanup == SelectDone \/ CleanupLockRegistry \/ CleanupLockHandle \/ CleanupStop

Handler == HandlerLookup \/ HandlerLockHandle \/ HandlerOpDone

Next ==
    \/ Startup
    \/ Publish
    \/ EventTask
    \/ MonitorTask
    \/ AdvanceTime
    \/ Cleanup
    \/ Handler

\* The full lifecycle of run() with a small environment budget.
Spec == Init /\ [][Next]_vars

\* A producer that outruns the subscriber: one system producer publishes
\* more events than the channel holds while event_buffer_task receives at
\* any pace.
InitLag ==
    StartState(OneInstance(FALSE), UsersFile(<<>>),
               {[kind |-> "other", uuid |-> NoId]}, LagEvents, 0, 0)

NextLag == Startup \/ Publish \/ EventTask

SpecLag == InitLag /\ [][NextLag]_vars

\* Every Sender of the channel is dropped: what is retained can still be
\* received, then recv() gives Closed. run() keeps tx for as long as it polls
\* the task, so this is the task against a channel run() does not give it.
DropSenders ==
    /\ main_pc = "select"
    /\ ~chan.closed
    /\ chan' = [chan EXCEPT !.closed = TRUE]
    /\ UNCHANGED <<mainVars, lockVars, running, pubLeft, evtVars, monVars, pushed, now,
                   hVars, userVars, envVars>>

\* event_buffer_task against every outcome of recv(): events, Lagged and
\* Closed.
NextTask == Startup \/ Publish \/ EventTask \/ DropSenders

SpecTask == InitLag /\ [][NextTask]_vars

\* Long steady-state workloads, one per kind of history buffer: system
\* events only, console output of one instance only, or the monitor loop
\* alone for BufTime time units with one registered instance.
InitSteady ==
    \/ StartState(<<>>, UsersFile(<<>>), {[kind |-> "other", uuid |-> NoId]},
                  BufEvents, 0, 0)
    \/ \E a \in BOOLEAN :
          StartState(OneInstance(a), UsersFile(<<>>),
                     {[kind |-> "console", uuid |-> "i1"]}, BufEvents, 0, 0)
    \/ \E a \in BOOLEAN :
          StartState(OneInstance(a), UsersFile(<<>>), {}, 0, 0, BufTime)

\* A producer that publishes once the subscriber has recorded what was sent.
PublishPaced ==
    /\ main_pc = "select"
    /\ evt_pc = "recv"
    /\ rx_next = chan.tail
    /\ Publish

NextSteady == Startup \/ PublishPaced \/ EventTask \/ MonitorTask \/ AdvanceTime

SpecSteady == InitSteady /\ [][NextSteady]_vars

\* The user store under requests that mutate it.
InitUsers ==
    \E d \in DiskStates, uf \in {<<>>, <<"admin">>, <<"guest">>} :
        StartState(d, UsersFile(uf), {}, 0, MaxStimuli, 0)

\* The lock users together: the monitor loop, the cleanup, and handlers that
\* operate on instances and delete them.
InitLocks ==
    \E d \in DiskStates :
        StartState(d, UsersFile(<<>>), {}, 0, MaxStimuli, MaxTime)

HandlerDelete == HandlerOpThenRemove \/ HandlerRemove

NextLocks ==
    \/ Startup
    \/ MonitorTask
    \/ AdvanceTime
    \/ Handler
    \/ HandlerDelete
    \/ Cleanup

SpecLocks == InitLocks /\ [][NextLocks]_vars

\* The same under the scheduling the runtime gives: a task that can take a
\* step does not wait forever (tokio polls every woken task and its Mutex
\* is granted in request order), and every instance operation returns.
FairLocks ==
    /\ SpecLocks
    /\ WF_vars(CleanupLockRegistry)
    /\ WF_vars(CleanupLockHandle)
    /\ WF_vars(CleanupStop)
    /\ WF_vars(HandlerLockHandle)
    /\ WF_vars(HandlerOpDone \/ HandlerOpThenRemove)
    /\ WF_vars(HandlerRemove)

\* Startup over every kind of persisted state: any subdirectories, a users
\* file that parses or not, and requests from clients.
InitBoot ==
    \E d \in DiskBoot, uf \in {UsersFile(<<>>), BadUsersFile} :
        StartState(d, uf, {}, 0, MaxStimuli, 0)

NextBoot == Startup \/ Handler \/ Cleanup

SpecBoot == InitBoot /\ [][NextBoot]_vars

NextUsers == Startup \/ HandlerUsersTransform \/ Cleanup

SpecUsers == InitUsers /\ [][NextUsers]_vars

\* ------------------------------------------------------------------------
\* Properties
\* ------------------------------------------------------------------------

\* The elements of a sequence.
Range(q) == {q[k] : k \in 1..Len(q)}

\* The places of the history buffers that hold event e.
Places(e) ==
    {<<"events", k>> : k \in {j \in 1..Len(events_buffer) : events_buffer[j] = e}}
    \cup UNION {{<<i, k>> : k \in {j \in 1..Len(console_out_buffer[i]) :
                                      console_out_buffer[i][j] = e}}
                : i \in DOMAIN console_out_buffer}

\* e is the event recv() returned last.
LastReceived(e) == Len(received) > 0 /\ e = received[Len(received)]

\* C1: the registry lock is held only for one map operation: neither the
\* monitor pass nor the cleanup holds it while it waits for or holds a handle
\* lock, or while monitor() or stop() runs on a handle.
C1_RegistryLockOnlyForMapOperation ==
    /\ ~(registry_lock = "monitor" /\ mon_pc \in {"lock_handle", "monitoring"})
    /\ ~(registry_lock = "main" /\ main_pc \in {"cleanup_wait", "stopping"})

\* C2: with one registered instance and a 1 s tick, 3.5 s (7 time units)
\* after the monitor loop started the instance's monitor buffer holds at
\* least 3 and at most 4 snapshots.
C2_ThreeToFourSnapshotsAfter3500ms ==
    (main_pc = "select" /\ registry = {"i1"} /\ mon_pc = "tick" /\ now = 7)
        => Len(Entry(monitor_buffer, "i1")) \in 3..4

\* Every buffer element sits where its kind and owner send it, and the
\* buffers hold nothing that was not received.
RoutedByKind ==
    /\ \A e \in Range(events_buffer) : e.kind # "console"
    /\ \A i \in DOMAIN console_out_buffer :
          \A e \in Range(console_out_buffer[i]) : e.kind = "console" /\ e.uuid = i
    /\ Range(events_buffer) \subseteq Range(received)
    /\ \A i \in DOMAIN console_out_buffer :
          Range(console_out_buffer[i]) \subseteq Range(received)

\* The task received an event that it has not pushed.
Held ==
    /\ Len(received) > 0
    /\ received[Len(received)] \notin
          Range(pushed.events) \cup UNION {Range(pushed.console[i]) : i \in Ids}

\* C3 as stated: every element of the global buffer is a non-console event
\* and every element of instance I's console buffer is a console event owned
\* by I; every received event is in exactly one place of the buffers as soon
\* as the task no longer holds it between recv and push.
C3_EveryReceivedEventAppended ==
    /\ RoutedByKind
    /\ \A e \in Range(received) :
          Cardinality(Places(e)) =
              IF LastReceived(e) /\ evt_pc = "route" THEN 0 ELSE 1

\* C3 amended: as above, except that the event the task held between recv
\* and push when the select! dropped the task is in no buffer; every other
\* received event is in exactly one place.
C3_EventRouting ==
    /\ RoutedByKind
    /\ \A e \in Range(received) :
          Cardinality(Places(e)) =
              IF LastReceived(e) /\ Held THEN 0 ELSE 1
    /\ Held => evt_pc \in {"route", "dropped"}

\* C3 witness: a console event sits in its instance's console buffer, and
\* the select! dropped the task while it held a non-console event that
\* carries an owner.
C3_Witness ==
    /\ \E i \in DOMAIN console_out_buffer : console_out_buffer[i] # <<>>
    /\ evt_pc = "dropped"
    /\ Held
    /\ received[Len(received)].kind = "other"
    /\ received[Len(received)].uuid # NoId

\* The positions of the channel the Lagged signals said were missed.
Skipped == UNION {(l.resume - l.missed)..(l.resume - 1) : l \in Range(lags)}

\* C4: a subscription that fell more than the channel capacity behind gets
\* Lagged from its next receive, which changes no buffer and leaves the
\* cursor within the capacity, so that no second Lagged follows without new
\* overflow; the recorded events are in publish order and skip only events
\* that a Lagged signal covered, none of which is received; the task never
\* terminates and can receive whenever an event is waiting; a producer can
\* always publish.
C4_LagTolerance ==
    /\ [](evt_pc # "done")
    /\ [](\A k \in 1..Len(events_buffer) - 1 :
             /\ events_buffer[k].seq < events_buffer[k + 1].seq
             /\ (events_buffer[k].seq + 1)..(events_buffer[k + 1].seq - 1)
                    \subseteq Skipped)
    /\ [](\A e \in Range(received) : e.seq \notin Skipped)
    /\ []((evt_pc = "recv" /\ rx_next < chan.tail) => ENABLED EventRecv)
    /\ []((main_pc = "select" /\ pubLeft > 0) => ENABLED Publish)
    /\ [][EventRecv =>
             IF chan.tail - rx_next > ChannelCap
             THEN /\ Len(lags') = Len(lags) + 1
                  /\ lags'[Len(lags')].missed = chan.tail - rx_next - ChannelCap
                  /\ UNCHANGED <<events_buffer, console_out_buffer, received>>
                  /\ evt_pc' = "recv"
                  /\ chan'.tail - rx_next' <= ChannelCap
             ELSE /\ lags' = lags
                  /\ evt_pc' = "route"]_vars

\* C4 witness: a Lagged signal was received and an event published after it
\* has been recorded.
C4_Witness ==
    /\ Len(lags) >= 1
    /\ \E e \in Range(events_buffer) : e.seq >= lags[1].tail

\* C5: each history buffer is never longer than its capacity and holds
\* exactly the last capacity-many elements pushed into it, in push order.
C5_BufferEviction ==
    /\ Len(events_buffer) <= EventBufferCap
    /\ events_buffer = LastN(pushed.events, EventBufferCap)
    /\ \A i \in Ids :
          /\ Len(Entry(console_out_buffer, i)) <= ConsoleBufferCap
          /\ Entry(console_out_buffer, i) = LastN(pushed.console[i], ConsoleBufferCap)
          /\ Len(Entry(monitor_buffer, i)) <= MonitorBufferCap
          /\ Entry(monitor_buffer, i) = LastN(pushed.monitor[i], MonitorBufferCap)

\* C5 witness: more events were pushed into the global buffer than it holds.
C5_Witness == Len(pushed.events) > EventBufferCap /\ Len(events_buffer) = EventBufferCap

\* The select! has returned.
RaceResolved == main_pc \in CleanupPcs \cup {"exited"}

\* A step in which the event task and the monitor task do nothing.
AbandonedTasksRest ==
    UNCHANGED <<evt_pc, mon_pc, rx_next, received, events_buffer,
                console_out_buffer, monitor_buffer, pushed>>

\* C6: run() leaves the select! only when one of its branches has finished,
\* and then goes to the cleanup; before that no stop() is issued by the
\* cleanup; after that the event task and the monitor task take no step and
\* no history or monitor buffer changes.
C6_ShutdownAfterFirstFinish ==
    /\ [](main_pc \in StartupPcs \cup {"select"} =>
             /\ \A i \in Ids : stop_calls[i] = 0
             /\ cl_cur = NoId
             /\ \A i \in Ids : handle_lock[i] = "main" => as_cur = i)
    /\ [][(main_pc = "select" /\ main_pc' # "select") =>
             (Finished # {} /\ main_pc' = "cleanup")]_vars
    /\ [][RaceResolved => AbandonedTasksRest]_vars

\* C6 witness: the cleanup is stopping an instance while an event that was
\* published is left unreceived by the dropped event task, and the monitor
\* task was dropped after it had pushed a report.
C6_Witness ==
    /\ main_pc = "stopping"
    /\ evt_pc = "dropped"
    /\ mon_pc = "dropped"
    /\ chan.tail > 0
    /\ received = <<>>
    /\ monitor_buffer # <<>>

\* C7: the cleanup calls stop() at most once per instance and on one
\* instance at a time, never on an instance outside the registry, and when
\* run() returns from the cleanup stop() was called exactly once on every
\* registered instance, whether or not some stop() failed.
C7_StopEveryInstanceOnce ==
    /\ \A i \in Ids : stop_calls[i] <= 1
    /\ \A i \in Ids \ registry : stop_calls[i] = 0
    /\ Cardinality({i \in Ids : handle_lock[i] = "main"}) <= 1
    /\ stop_failed \subseteq {i \in registry : stop_calls[i] = 1}
    /\ (main_pc = "exited") => \A i \in registry : stop_calls[i] = 1

\* C7 witness: run() has returned after stop() failed on the first of two
\* registered instances and was still called on the second.
C7_Witness ==
    /\ main_pc = "exited"
    /\ registry = Ids
    /\ stop_failed # {}
    /\ \A i \in Ids : stop_calls[i] = 1

\* C8: start() is invoked by the auto start loop only on restored instances
\* whose configuration has auto_start set, once each; when the loop is over
\* it has been invoked on all of them, whatever the earlier start() calls
\* returned; run() is never aborted once a start() was invoked; and until
\* the loop is over neither task has started, no request is handled and no
\* buffer holds anything.
C8_AutoStartExactlyFlagged ==
    /\ Range(auto_started) \subseteq {i \in registry : disk[i].auto_start}
    /\ Cardinality(Range(auto_started)) = Len(auto_started)
    /\ ((main_pc = "auto_start" /\ as_todo = {})
        \/ main_pc \in {"select", "exited"} \cup CleanupPcs)
          => Range(auto_started) = {i \in DOMAIN disk : disk[i].auto_start}
    /\ (main_pc = "aborted") => auto_started = <<>>
    /\ (main_pc \in StartupPcs) =>
          /\ evt_pc = "idle"
          /\ mon_pc = "idle"
          /\ h_pc = "idle"
          /\ received = <<>>
          /\ events_buffer = <<>>
          /\ console_out_buffer = <<>>
          /\ monitor_buffer = <<>>

\* C8 witness: the loop is over, start() failed on the first auto-start
\* instance and was invoked, and succeeded, on the second.
C8_Witness ==
    /\ main_pc = "auto_start"
    /\ as_todo = {}
    /\ Len(auto_started) = 2
    /\ ~running[auto_started[1]]
    /\ running[auto_started[2]]

\* C9: when run() returns from the cleanup, the final persistence function
\* has run for each of the three containers.
C9_FinalizedAtShutdown == (main_pc = "exited") => finalized = Containers

\* C10: a users checkpoint that fails is returned to the caller of transform
\* as an Err; no caller is terminated by it.
C10_PersistenceFailureIsAnError ==
    (h_result.io \in {"create_failed", "write_failed"}) => h_result.result = "Err"

InProgress(i) ==
    (IF main_pc = "auto_start" /\ as_cur = i THEN {"start"} ELSE {})
    \cup (IF mon_pc = "monitoring" /\ mon_cur = i THEN {"monitor"} ELSE {})
    \cup (IF main_pc = "stopping" /\ cl_cur = i THEN {"stop"} ELSE {})
    \cup (IF h_pc = "op" /\ h_id = i THEN {"handler"} ELSE {})

\* C12: at most one operation is in progress on an instance, and the
\* activity performing it holds that instance's handle lock.
C12_OneOperationPerInstance ==
    \A i \in Ids :
       /\ Cardinality(InProgress(i)) <= 1
       /\ "start" \in InProgress(i) => handle_lock[i] = "main"
       /\ "stop" \in InProgress(i) => handle_lock[i] = "main"
       /\ "monitor" \in InProgress(i) => handle_lock[i] = "monitor"
       /\ "handler" \in InProgress(i) => handle_lock[i] = "handler"

\* C12 witness: monitor() runs on i1 while a request handler waits for the
\* lock of the same handle.
C12_Witness ==
    /\ InProgress("i1") = {"monitor"}
    /\ h_pc = "lock_handle"
    /\ h_id = "i1"

\* run() is past the computation of first_time_setup_key and not yet serving.
KeyDecided == main_pc \in {"restore_instances", "auto_start"}

\* C13: once startup has restored the user store, a setup key is held if and
\* only if no restored user is an owner; the store is the one read from the
\* users file, and no key exists before.
C13_SetupKeyIffNoOwner ==
    /\ KeyDecided =>
          /\ users = FromReader(users_file.content)
          /\ (first_time_setup_key = "key") <=> ~(\E u \in users : IsOwner(u))
          /\ first_time_setup_key \in {"key", "none"}
    /\ (main_pc \in {"prepare", "restore_users"}) => first_time_setup_key = "none"

\* C13 witness: a store that holds a user but no owner has given a key.
C13_Witness ==
    /\ KeyDecided
    /\ users = {"guest"}
    /\ first_time_setup_key = "key"

\* run() panicked during startup.
Aborted == main_pc = "aborted"

\* Nothing that serves or governs has run: neither task, no request, no
\* start().
NothingRan ==
    /\ evt_pc = "idle"
    /\ mon_pc = "idle"
    /\ h_pc = "idle"
    /\ reqLeft = MaxStimuli
    /\ auto_started = <<>>
    /\ \A i \in Ids : ~running[i] /\ stop_calls[i] = 0
    /\ registry_lock = "free"

\* restore_users or restore_instances ends in a panic.
AbortsInRestore ==
    main_pc \in {"restore_users", "restore_instances"} /\ main_pc' = "aborted"

\* The persisted state is why: the users file does not parse, or a
\* directory with the marker file holds no configuration of a supported
\* instance.
BadPersistedState ==
    \/ main_pc = "restore_users" /\ ~users_file.valid
    \/ main_pc = "restore_instances"
          /\ \E i \in Marked(disk) : disk[i].config # "ok"

\* C14: an aborted startup has served no request, started no task and no
\* instance, and nothing happens after it; startup never gets past a users
\* file that does not parse or a marked directory whose configuration is
\* malformed or unsupported, and aborts in the restore steps for no other
\* reason; the registry holds exactly the directories with the marker file.
C14_FatalStartupErrorsAbort ==
    /\ [](Aborted => NothingRan)
    /\ [][Aborted => Aborted']_vars
    /\ []((main_pc \notin {"prepare", "restore_users", "aborted"})
             => users_file.valid)
    /\ []((main_pc \notin {"prepare", "restore_users", "restore_instances",
                            "aborted"})
             => /\ registry = Marked(disk)
                /\ \A i \in registry : disk[i].config = "ok")
    /\ []((main_pc \in {"prepare", "restore_users", "restore_instances"})
             => registry = {})
    /\ [][AbortsInRestore => BadPersistedState]_vars

\* C14 witness: startup was aborted by the unsupported configuration of
\* "i2" after "i1" was found well-formed and flagged for auto start.
C14_Witness ==
    /\ Aborted
    /\ DOMAIN disk = Ids
    /\ disk["i1"].marker /\ disk["i1"].config = "ok" /\ disk["i1"].auto_start
    /\ disk["i2"].marker
    /\ disk["i2"].config = "unsupported"
    /\ users_file.valid

\* C15: in the assembled shared state the port allocator's in-use set is the
\* set of the restored instances' ports, and no two restored instances hold
\* the same port.
C15_RestoredPortsInUseAndDistinct ==
    (main_pc = "select") =>
        /\ port_allocator = {disk[i].port : i \in registry}
        /\ \A i, j \in registry : i # j => disk[i].port # disk[j].port

\* A step ends the pass in progress.
PassEnds == mon_pass # NoPass /\ mon_pass' = NoPass

\* The snapshots the pass has appended for i when this step is over.
SnapshotsOfPass(i) ==
    mon_pass.count[i]
    + (IF mon_cur = i /\ pushed'.monitor[i] # pushed.monitor[i] THEN 1 ELSE 0)

\* The step appends one report of mon_cur to mon_cur's buffer, which it
\* creates if absent, and leaves every other buffer as it was.
AppendsToCurrentOnly ==
    /\ mon_cur \in mon_pass.ids
    /\ mon_cur \in registry
    /\ pushed'.monitor[mon_cur] = Append(pushed.monitor[mon_cur], Report(mon_cur, now))
    /\ DOMAIN monitor_buffer' = DOMAIN monitor_buffer \cup {mon_cur}
    /\ Len(monitor_buffer'[mon_cur]) <= MonitorBufferCap
    /\ monitor_buffer'[mon_cur][Len(monitor_buffer'[mon_cur])] = Report(mon_cur, now)
    /\ \A j \in Ids \ {mon_cur} :
          /\ Entry(monitor_buffer', j) = Entry(monitor_buffer, j)
          /\ pushed'.monitor[j] = pushed.monitor[j]

\* What every pass does, finished or not: it is over the registry as it is,
\* which does not change meanwhile; it has appended one snapshot for each
\* entry it is past and none for the others; monitor() is in progress on one
\* entry at a time, each taken once; and the monitor buffers change by its
\* appends only.
PassDiscipline ==
    /\ [](mon_pass # NoPass =>
             /\ mon_pc \in {"lock_handle", "monitoring"}
             /\ mon_pass.ids = registry
             /\ mon_cur \in registry \ mon_todo
             /\ mon_todo \subseteq registry
             /\ \A i \in Ids :
                   mon_pass.count[i] =
                       IF i \in registry \ (mon_todo \cup {mon_cur}) THEN 1 ELSE 0)
    /\ [](mon_pc \in {"lock_handle", "monitoring"} => mon_pass # NoPass)
    /\ [][MonitorReport => AppendsToCurrentOnly]_vars
    /\ [][(monitor_buffer' # monitor_buffer \/ pushed'.monitor # pushed.monitor)
             => MonitorReport]_vars

\* C16 as stated: every pass ends with exactly one snapshot appended for
\* every identifier that was in the registry, each append as above.
C16_EveryPassCoversRegistry ==
    /\ PassDiscipline
    /\ [][PassEnds => \A i \in Ids :
                          SnapshotsOfPass(i) = IF i \in mon_pass.ids THEN 1 ELSE 0]_vars

\* C16 amended: every pass that the select! does not abandon ends so; an
\* abandoned pass has appended one snapshot for each entry it was past and
\* none for the others.
C16_PassAppendsOncePerEntry ==
    /\ PassDiscipline
    /\ [][(PassEnds /\ mon_pc' # "dropped") =>
              \A i \in Ids :
                 SnapshotsOfPass(i) = IF i \in mon_pass.ids THEN 1 ELSE 0]_vars
    /\ [][(PassEnds /\ mon_pc' = "dropped") =>
              /\ UNCHANGED <<monitor_buffer, pushed>>
              /\ \A i \in Ids : mon_pass.count[i] <= 1]_vars

\* C16 witness: after a handler removed "i2" from the registry, a pass over
\* "i1" alone is in progress, and "i2" keeps the snapshot of an earlier pass.
C16_Witness ==
    /\ mon_pass.ids = {"i1"}
    /\ mon_pc = "monitoring"
    /\ Len(Entry(monitor_buffer, "i2")) = 1
    /\ "i2" \notin registry

\* recv() is about to give Lagged: the cursor is behind the oldest retained
\* event.
RecvLagged == chan.tail - rx_next > ChannelCap

\* recv() is about to give Closed: nothing is left to receive and no Sender
\* is left.
RecvClosed == rx_next = chan.tail /\ chan.closed

\* The task terminates in this step.
TaskStops == evt_pc # "done" /\ evt_pc' = "done"

\* C17: a receive that gives Lagged leaves both kinds of buffer as they are
\* and the task at its next receive; one that gives Closed ends the task,
\* which then changes nothing; the task ends in no other step: not after an
\* event is received and not after it is pushed.
C17_LaggedContinuesClosedStops ==
    /\ [][(EventRecv /\ RecvLagged) =>
              /\ evt_pc' = "recv"
              /\ UNCHANGED <<events_buffer, console_out_buffer, received, pushed>>]_vars
    /\ [][(EventRecv /\ ~RecvLagged /\ RecvClosed) =>
              /\ evt_pc' = "done"
              /\ UNCHANGED <<events_buffer, console_out_buffer, received, pushed>>]_vars
    /\ [][(EventRecv /\ ~RecvLagged /\ ~RecvClosed) =>
              /\ evt_pc' = "route"
              /\ Len(received') = Len(received) + 1]_vars
    /\ [][EventRoute => evt_pc' = "recv"]_vars
    /\ [][TaskStops => (EventRecv /\ ~RecvLagged /\ RecvClosed)]_vars
    /\ [][evt_pc = "done" =>
              UNCHANGED <<evt_pc, events_buffer, console_out_buffer, received>>]_vars

\* C17 witness: the task has ended on Closed after it had received Lagged
\* and recorded events.
C17_Witness ==
    /\ evt_pc = "done"
    /\ Len(lags) >= 1
    /\ events_buffer # <<>>

\* C18: while the task runs, every event published so far that its cursor
\* is past was received or was covered by a Lagged signal; such an event is
\* the only kind that is never appended.
C18_EveryPublishedEventRecorded ==
    (main_pc = "select" /\ evt_pc \in {"recv", "route"}) =>
        \A q \in 0..(rx_next - 1) :
           \/ \E e \in Range(received) : e.seq = q
           \/ q \in Skipped

\* The activities that take locks, named as the locks name their holders.
Activities == {"monitor", "main", "handler"}

\* The lock activity a is waiting for: the registry's, a handle's, or none.
Wanted(a) ==
    CASE a = "monitor" /\ mon_pc = "pass" -> "registry"
      [] a = "monitor" /\ mon_pc = "lock_handle" -> mon_cur
      [] a = "main" /\ main_pc = "cleanup" -> "registry"
      [] a = "main" /\ main_pc = "cleanup_wait" -> cl_cur
      [] a = "handler" /\ h_pc = "lock_handle" -> h_id
      [] a = "handler" /\ h_pc = "remove_wait" -> "registry"
      [] OTHER -> "nothing"

\* Who holds lock l.
HolderOf(l) ==
    CASE l = "registry" -> registry_lock
      [] l \in Ids -> handle_lock[l]
      [] OTHER -> "free"

\* Activity a waits for a lock that activity b holds.
WaitsFor(a, b) == Wanted(a) # "nothing" /\ HolderOf(Wanted(a)) = b

\* C19: no activities wait for each other's locks in a cycle, so that every
\* lock request can still be granted.
C19_NoDeadlock ==
    /\ \A a, b \in Activities : ~(a # b /\ WaitsFor(a, b) /\ WaitsFor(b, a))
    /\ \A a, b, c \in Activities :
          ~(WaitsFor(a, b) /\ WaitsFor(b, c) /\ WaitsFor(c, a))

====
